---------------------------- MODULE Spec2Model ----------------------------
(***************************************************************************)
(* Model of src/main.go: a Go process that registers 21 OpenTelemetry      *)
(* instruments (newMetricsCollector), samples the Go runtime from one      *)
(* callback on every scrape of /metrics, and offers three demo routes      *)
(* that drive three counters.                                              *)
(*                                                                         *)
(* Numbers.  TLC's integers are 32 bits wide, so the two unsigned widths   *)
(* of the collector (lastGC uint32, lastPause uint64) are scaled down:     *)
(* Uint32Mod and Uint64Mod stand for 2^32 and 2^64.  Every cycle count of  *)
(* the model is below Uint32Mod and every timestamp below Uint64Mod, so    *)
(* a subtraction wraps in the model exactly when it wraps in the program.  *)
(* Time is wall-clock nanoseconds since the epoch, advancing in steps of   *)
(* ClockStepNs.                                                            *)
(***************************************************************************)
EXTENDS Integers, Sequences, FiniteSets, TLC

(***************************************************************************)
(* Bounds of the model.                                                    *)
(***************************************************************************)
MaxPasses == 2         \* scrapes of /metrics over a run
MaxGC == 2             \* GC cycles the runtime completes over a run
MaxClockSteps == 3     \* steps of the monotonic clock over a run
MaxWallSteps == 1      \* steps the wall clock's readings range over
MaxHeapLive == 1       \* live 1 MB buffers on the heap
MaxThreads == 5        \* OS threads the runtime has created over a run

MaxMutexCalls == 3     \* calls of /simulate-mutex over a run
MaxSpawnCalls == 1     \* calls of /spawn-goroutines over a run

Scrapers == {"s1", "s2"}       \* requests to /metrics that may be in flight together
MutexCallers == {"m1", "m2"}   \* requests to /simulate-mutex that may be in flight together

(***************************************************************************)
(* Program constants.                                                      *)
(***************************************************************************)
NsPerSecond == 1000000000                \* 1e9, line 222
NsPerMillisecond == 1000000              \* time.Millisecond
MutexSleepNs == 100 * NsPerMillisecond   \* time.Millisecond * 100, line 293
AllocBytes == 1024 * 1024                \* make([]byte, 1024*1024), line 276
Uint32Mod == 2^12                        \* stands for 2^32 (lastGC, NumGC)
Uint64Mod == 2^30                        \* stands for 2^64 (lastPause, LastGC)

ClockStepNs == MutexSleepNs              \* granularity of the model's clock
BootTimeNs == 2 * ClockStepNs            \* wall-clock time at process start (> 0)

(***************************************************************************)
(* The instruments, in the order newMetricsCollector creates them.         *)
(***************************************************************************)
Instruments ==
  << [field |-> "heapAlloc",         name |-> "go_memstats_heap_alloc_bytes",           kind |-> "gauge"],
     [field |-> "heapIdle",          name |-> "go_memstats_heap_idle_bytes",            kind |-> "gauge"],
     [field |-> "heapInUse",         name |-> "go_memstats_heap_inuse_bytes",           kind |-> "gauge"],
     [field |-> "heapObjects",       name |-> "go_memstats_heap_objects",               kind |-> "gauge"],
     [field |-> "heapReleased",      name |-> "go_memstats_heap_released_bytes",        kind |-> "gauge"],
     [field |-> "heapSys",           name |-> "go_memstats_heap_sys_bytes",             kind |-> "gauge"],
     [field |-> "gcPauseDuration",   name |-> "go_gc_duration_seconds",                 kind |-> "histogram"],
     [field |-> "gcCount",           name |-> "go_gc_cycles_total",                     kind |-> "counter"],
     [field |-> "gcForced",          name |-> "go_gc_forced_total",                     kind |-> "counter"],
     [field |-> "activeGoroutines",  name |-> "go_goroutines",                          kind |-> "gauge"],
     [field |-> "totalGoroutines",   name |-> "go_goroutines_created_total",            kind |-> "counter"],
     [field |-> "gcCPUFraction",     name |-> "go_gc_cpu_fraction",                     kind |-> "gauge"],
     [field |-> "gcSys",             name |-> "go_memstats_gc_sys_bytes",               kind |-> "gauge"],
     [field |-> "goroutineExecTime", name |-> "go_runtime_cpu_goroutine_seconds_total", kind |-> "counter"],
     [field |-> "gcTime",            name |-> "go_gc_cpu_seconds_total",                kind |-> "counter"],
     [field |-> "systemTime",        name |-> "go_runtime_sys_seconds_total",           kind |-> "counter"],
     [field |-> "osThreads",         name |-> "go_threads",                             kind |-> "gauge"],
     [field |-> "stackInUse",        name |-> "go_memstats_stack_inuse_bytes",          kind |-> "gauge"],
     [field |-> "stackSys",          name |-> "go_memstats_stack_sys_bytes",            kind |-> "gauge"],
     [field |-> "mutexWaitTime",     name |-> "go_mutex_wait_seconds_total",            kind |-> "counter"],
     [field |-> "mutexLockCount",    name |-> "go_mutex_lock_total",                    kind |-> "counter"] >>

NumInstruments == Len(Instruments)

AllFields == {Instruments[i].field : i \in 1..NumInstruments}

CounterFields == {Instruments[i].field : i \in {j \in 1..NumInstruments : Instruments[j].kind = "counter"}}

GaugeFields == {Instruments[i].field : i \in {j \in 1..NumInstruments : Instruments[j].kind = "gauge"}}

\* The name the i-th creation call passes to the meter, lines 65-191.
InstrumentNameCopied(i) == Instruments[IF i = 19 THEN 18 ELSE i].name

InstrumentName(i) == Instruments[i].name

\* What the meter holds once the fields in "made" have been created: the name
\* and the kind of each instrument.
Registry(made) ==
  {[name |-> InstrumentName(i), kind |-> Instruments[i].kind] :
     i \in {j \in 1..NumInstruments : Instruments[j].field \in made}}

VARIABLES
  phase,               \* where main is: "exporter", "creating", "callback", "returned", "run", "listening", "fatal"
  step,                \* creation calls newMetricsCollector has made so far
  created,             \* fields of mc holding an instrument the meter created
  err,                 \* newMetricsCollector's err
  callbackRegistered,  \* meter.RegisterCallback succeeded
  now,                 \* monotonic clock of time.Now / time.Since, ns
  numGC,               \* runtime: completed GC cycles (MemStats.NumGC)
  lastGCTime,          \* runtime: wall clock at the end of the last GC (MemStats.LastGC)
  heapLive,            \* runtime: live 1 MB buffers
  threads,             \* runtime: OS threads created so far
  lastGC,              \* mc.lastGC
  lastPause,           \* mc.lastPause
  counter,             \* cumulative value of every counter instrument
  gcPauseDuration,     \* values recorded into the histogram, in order
  pc,                  \* per scrape request: position in the sampling pass
  stats,               \* per scrape request: the callback's local "stats"
  observed,            \* per scrape request: gauge values handed to the Observer
  regGC,               \* per scrape request: mc.lastGC as loaded at line 217
  regPause,            \* per scrape request: mc.lastPause as loaded at line 220
  cbErr,               \* per scrape request: the error the callback returned, "none" before it returns
  snapGoroutines,      \* per scrape request: goroutines alive when the snapshot was taken (history)
  seenGC,              \* largest cycle count any snapshot has shown (history)
  passes,              \* scrapes started so far
  spawnCalls,          \* calls of /spawn-goroutines so far
  spawnPending,        \* spawned goroutines that have not reached line 284 yet
  spawnSleeping,       \* spawned goroutines in time.Sleep(time.Second)
  mpc,                 \* per /simulate-mutex request: position in the handler
  mstart,              \* per /simulate-mutex request: the handler's local "start"
  mutexCalls,          \* calls of /simulate-mutex started so far
  mutexDone,           \* calls of /simulate-mutex that have returned
  mutexOverlap         \* some call of /simulate-mutex began while another was in flight

startupVars == <<phase, step, created, err, callbackRegistered>>
runtimeVars == <<now, numGC, lastGCTime, heapLive, threads>>
collectorVars == <<lastGC, lastPause, counter, gcPauseDuration>>
scrapeVars == <<pc, stats, observed, regGC, regPause, cbErr, snapGoroutines, seenGC, passes>>

demoVars == <<spawnCalls, spawnPending, spawnSleeping, mpc, mstart, mutexCalls, mutexDone, mutexOverlap>>

vars == <<startupVars, runtimeVars, collectorVars, scrapeVars, demoVars>>


(***************************************************************************)
(* State after construction: main has not run yet; mc is the zero value    *)
(* &MetricsCollector{} (line 61), every counter is at 0, nothing recorded. *)
(***************************************************************************)
ZeroStats ==
  [HeapAlloc |-> 0, HeapIdle |-> 0, HeapInuse |-> 0, HeapObjects |-> 0,
   HeapReleased |-> 0, HeapSys |-> 0, GCCPUFraction |-> 0, GCSys |-> 0,
   StackInuse |-> 0, StackSys |-> 0, NumGC |-> 0, LastGC |-> 0]

NoGauges == [f \in GaugeFields |-> 0]

NewCollectorLastGC == 0

NewCollectorLastPause == 0

\* OS threads of a Go process when main starts: the main thread and the
\* runtime's monitor thread.
StartThreads == 2

Init ==
  /\ phase = "exporter"
  /\ step = 0
  /\ created = {}
  /\ err = FALSE
  /\ callbackRegistered = FALSE
  /\ now = BootTimeNs
  /\ numGC = 0
  /\ lastGCTime = 0
  /\ heapLive = 0
  /\ threads = StartThreads
  /\ lastGC = NewCollectorLastGC
  /\ lastPause = NewCollectorLastPause
  /\ counter = [f \in CounterFields |-> 0]
  /\ gcPauseDuration = << >>
  /\ pc = [p \in Scrapers |-> "idle"]
  /\ stats = [p \in Scrapers |-> ZeroStats]
  /\ observed = [p \in Scrapers |-> NoGauges]
  /\ regGC = [p \in Scrapers |-> 0]
  /\ regPause = [p \in Scrapers |-> 0]
  /\ cbErr = [p \in Scrapers |-> "none"]
  /\ snapGoroutines = [p \in Scrapers |-> 0]
  /\ seenGC = 0
  /\ passes = 0
  /\ spawnCalls = 0
  /\ spawnPending = 0
  /\ spawnSleeping = 0
  /\ mpc = [m \in MutexCallers |-> "idle"]
  /\ mstart = [m \in MutexCallers |-> 0]
  /\ mutexCalls = 0
  /\ mutexDone = 0
  /\ mutexOverlap = FALSE

(***************************************************************************)
(* main and newMetricsCollector: startup.                                  *)
(***************************************************************************)

\* prometheus.New() and its check, lines 249-252.
NewExporter ==
  /\ phase = "exporter"
  /\ \E ok \in BOOLEAN : phase' = IF ok THEN "creating" ELSE "fatal"
  /\ UNCHANGED <<step, created, err, callbackRegistered, runtimeVars, collectorVars, scrapeVars, demoVars>>

\* The "if err != nil { return nil, err }" after every instrument: where
\* newMetricsCollector goes after creation call number n.
AfterCreate(ok, n) ==
  IF ~ok THEN "returned"
  ELSE IF n = NumInstruments THEN "callback" ELSE "creating"

\* One meter.Int64ObservableGauge / Float64Histogram / Int64Counter / ... call
\* with its error check, lines 65-195.  The backend may reject any of them.
CreateInstrument ==
  /\ phase = "creating"
  /\ step < NumInstruments
  /\ \E ok \in BOOLEAN :
       /\ err' = ~ok
       /\ created' = IF ok THEN created \cup {Instruments[step + 1].field} ELSE created
       /\ phase' = AfterCreate(ok, step + 1)
  /\ step' = step + 1
  /\ UNCHANGED <<callbackRegistered, runtimeVars, collectorVars, scrapeVars, demoVars>>

\* meter.RegisterCallback and "return mc, err", lines 198-244.
RegisterCallback ==
  /\ phase = "callback"
  /\ \E ok \in BOOLEAN :
       /\ callbackRegistered' = ok
       /\ err' = ~ok
  /\ phase' = "returned"
  /\ UNCHANGED <<step, created, runtimeVars, collectorVars, scrapeVars, demoVars>>

\* main's check of newMetricsCollector's error, lines 265-268.
MainIgnoringErr(e) == "run"

MainAfterCollector(e) == IF e THEN "fatal" ELSE "run"

MainCheckCollector ==
  /\ phase = "returned"
  /\ phase' = MainAfterCollector(err)
  /\ UNCHANGED <<step, created, err, callbackRegistered, runtimeVars, collectorVars, scrapeVars, demoVars>>

\* gin.Default(), the routes and r.Run(":8080"), lines 271-305: the process
\* listens, or Run fails and log.Fatal ends it.
Run ==
  /\ phase = "run"
  /\ \E ok \in BOOLEAN : phase' = IF ok THEN "listening" ELSE "fatal"
  /\ UNCHANGED <<step, created, err, callbackRegistered, runtimeVars, collectorVars, scrapeVars, demoVars>>

Alive == phase \notin {"fatal"}

(***************************************************************************)
(* The Go runtime and the clock: the environment of the program.           *)
(***************************************************************************)

\* time.Now(): the monotonic clock advances.
Tick ==
  /\ Alive
  /\ now < BootTimeNs + MaxClockSteps * ClockStepNs
  /\ now' = now + ClockStepNs
  /\ UNCHANGED <<numGC, lastGCTime, heapLive, threads, startupVars, collectorVars, scrapeVars, demoVars>>

\* What the wall clock may read when a GC cycle ends, ns since the epoch.  It
\* is not monotonic: the system may set it back.
WallClockReadings == {BootTimeNs + k * ClockStepNs : k \in 0..MaxWallSteps}

\* The runtime completes a GC cycle: NumGC grows by one, LastGC is the wall
\* clock's reading at its end, unreachable buffers are freed.
GCCycle ==
  /\ Alive
  /\ numGC < MaxGC
  /\ numGC' = numGC + 1
  /\ \E t \in WallClockReadings : lastGCTime' = t
  /\ heapLive' = 0
  /\ UNCHANGED <<now, threads, startupVars, collectorVars, scrapeVars, demoVars>>

\* The runtime starts one more OS thread (for a goroutine that became
\* runnable while every thread was busy or blocked).  Threads are not given
\* back.
ThreadStart ==
  /\ Alive
  /\ threads < MaxThreads
  /\ threads' = threads + 1
  /\ UNCHANGED <<now, numGC, lastGCTime, heapLive, startupVars, collectorVars, scrapeVars, demoVars>>

\* runtime.ReadMemStats(&stats): the fields the callback uses.  A GC cycle
\* frees the garbage and returns memory to the OS; GCCPUFraction is in
\* thousandths.
ReadMemStats ==
  [HeapAlloc     |-> 3 * AllocBytes + heapLive * AllocBytes,
   HeapIdle      |-> 5 * AllocBytes - heapLive * AllocBytes - numGC * AllocBytes,
   HeapInuse     |-> 4 * AllocBytes + heapLive * AllocBytes,
   HeapObjects   |-> 500 + heapLive,
   HeapReleased  |-> 2 * AllocBytes + numGC * AllocBytes,
   HeapSys       |-> 9 * AllocBytes - numGC * AllocBytes,
   GCCPUFraction |-> 10 * numGC,
   GCSys         |-> 7 * 4096,
   StackInuse    |-> 16 * 4096,
   StackSys      |-> 32 * 4096,
   NumGC         |-> numGC,
   LastGC        |-> lastGCTime]

\* runtime.NumGoroutine(): the main goroutine, one per request in flight and
\* the goroutines /spawn-goroutines started that have not returned.
NumGoroutine ==
  1 + Cardinality({p \in Scrapers : pc[p] # "idle"})
    + Cardinality({m \in MutexCallers : mpc[m] # "idle"})
    + spawnPending + spawnSleeping

\* runtime.NumCPU(): fixed for the life of the process.
NumCPU == 4


(***************************************************************************)
(* Conversions and arithmetic of the callback.                             *)
(***************************************************************************)

\* int64(x) of a uint64 x, lines 203-214: values of the upper half of the
\* range come out negative.
Int64OfUint64(x) == IF x < Uint64Mod \div 2 THEN x ELSE x - Uint64Mod

\* "stats.NumGC > mc.lastGC", line 217.
NewCycleOrDifferent(n, stored) == n # stored

NewCycle(n, stored) == n > stored

\* "delta := stats.NumGC - mc.lastGC", line 218: uint32 arithmetic.
deltaWithoutLast(n, stored) == n % Uint32Mod

deltaOffByOne(n, stored) == (n - stored + 1) % Uint32Mod

deltaOnePerPass(n, stored) == 1

delta(n, stored) == (n - stored) % Uint32Mod

\* "stats.LastGC > mc.lastPause", line 220.
LaterGC(t, stored) == t > stored

\* "pauseNs := stats.LastGC - mc.lastPause", line 221: uint64 arithmetic.
pauseNsSigned(t, stored) == t - stored

pauseNs(t, stored) == (t - stored) % Uint64Mod

\* "float64(pauseNs)/1e9", line 222: the recorded value, in seconds, as the
\* fraction num/den.
Seconds(ns) == [num |-> ns, den |-> NsPerSecond]

\* "return nil", line 228: what the callback returns after a pass over the
\* snapshot st.
CallbackReturnsErrWithoutGC(st) == IF st.NumGC = 0 THEN "error" ELSE "nil"

CallbackReturns(st) == "nil"

\* Counter.Add(ctx, incr) of the metrics API: one atomic addition.
AddOverwriting(value, incr) == incr

Add(value, incr) == value + incr

(***************************************************************************)
(* GET /metrics: promhttp.Handler() collects, which runs the callback      *)
(* registered at lines 198-242 and then reads every instrument.  The       *)
(* callback takes no lock, so callbacks of requests in flight together     *)
(* interleave at every access to mc.lastGC, mc.lastPause and the runtime.  *)
(***************************************************************************)

\* A scrape request arrives, line 300.
ScrapeStart(p) ==
  /\ phase = "listening"
  /\ pc[p] = "idle"
  /\ passes < MaxPasses
  /\ passes' = passes + 1
  /\ pc' = [pc EXCEPT ![p] = "readStats"]
  /\ UNCHANGED <<stats, cbErr, observed, regGC, regPause, snapGoroutines, seenGC,
                 startupVars, runtimeVars, collectorVars, demoVars>>

\* The six heap gauges, lines 203-208, from a snapshot st.
HeapGaugesFromIdle(st) ==
  [heapAlloc    |-> Int64OfUint64(st.HeapIdle),
   heapIdle     |-> Int64OfUint64(st.HeapIdle),
   heapInUse    |-> Int64OfUint64(st.HeapInuse),
   heapObjects  |-> Int64OfUint64(st.HeapObjects),
   heapReleased |-> Int64OfUint64(st.HeapReleased),
   heapSys      |-> Int64OfUint64(st.HeapSys)]

HeapGauges(st) ==
  [heapAlloc    |-> Int64OfUint64(st.HeapAlloc),
   heapIdle     |-> Int64OfUint64(st.HeapIdle),
   heapInUse    |-> Int64OfUint64(st.HeapInuse),
   heapObjects  |-> Int64OfUint64(st.HeapObjects),
   heapReleased |-> Int64OfUint64(st.HeapReleased),
   heapSys      |-> Int64OfUint64(st.HeapSys)]

\* The other six gauges, lines 209-214: four from the snapshot st, two from
\* calls into the runtime made now.
OtherGauges(st) ==
  [activeGoroutines |-> NumGoroutine,
   gcCPUFraction    |-> st.GCCPUFraction,
   gcSys            |-> Int64OfUint64(st.GCSys),
   osThreads        |-> NumCPU,
   stackInUse       |-> Int64OfUint64(st.StackInuse),
   stackSys         |-> Int64OfUint64(st.StackSys)]

\* Lines 200-208: runtime.ReadMemStats(&stats) and the heap gauges.
ReadStats(p) ==
  /\ pc[p] = "readStats"
  /\ stats' = [stats EXCEPT ![p] = ReadMemStats]
  /\ observed' = [observed EXCEPT ![p] =
       [f \in GaugeFields |->
          IF f \in DOMAIN HeapGauges(stats'[p]) THEN HeapGauges(stats'[p])[f] ELSE @[f]]]
  /\ snapGoroutines' = [snapGoroutines EXCEPT ![p] = NumGoroutine]
  /\ seenGC' = IF numGC > seenGC THEN numGC ELSE seenGC
  /\ pc' = [pc EXCEPT ![p] = "observeRest"]
  /\ UNCHANGED <<regGC, regPause, cbErr, passes,
                 startupVars, runtimeVars, collectorVars, demoVars>>

\* Lines 209-214: runtime.NumGoroutine(), runtime.NumCPU() and the gauges left.
ObserveRest(p) ==
  /\ pc[p] = "observeRest"
  /\ observed' = [observed EXCEPT ![p] =
       [f \in GaugeFields |->
          IF f \in DOMAIN OtherGauges(stats[p]) THEN OtherGauges(stats[p])[f] ELSE @[f]]]
  /\ pc' = [pc EXCEPT ![p] = "compareGC"]
  /\ UNCHANGED <<stats, cbErr, regGC, regPause, snapGoroutines, seenGC, passes,
                 startupVars, runtimeVars, collectorVars, demoVars>>

\* Line 217: load mc.lastGC and compare; with no new cycle the callback
\* returns (line 228).
CompareGC(p) ==
  /\ pc[p] = "compareGC"
  /\ regGC' = [regGC EXCEPT ![p] = lastGC]
  /\ pc' = [pc EXCEPT ![p] = IF NewCycle(stats[p].NumGC, lastGC) THEN "addGC" ELSE "collect"]
  /\ cbErr' = IF NewCycle(stats[p].NumGC, lastGC) THEN cbErr
              ELSE [cbErr EXCEPT ![p] = CallbackReturns(stats[p])]
  /\ UNCHANGED <<stats, observed, regPause, snapGoroutines, seenGC, passes,
                 startupVars, runtimeVars, collectorVars, demoVars>>

\* Lines 218-219: delta and mc.gcCount.Add.  mc.lastGC is read without
\* synchronisation: the build may use the value loaded at line 217 or load
\* the field again.
AddGC(p) ==
  /\ pc[p] = "addGC"
  /\ \E stored \in {regGC[p], lastGC} :
       LET d == delta(stats[p].NumGC, stored) IN
         counter' = [counter EXCEPT !.gcCount = Add(@, d)]
  /\ pc' = [pc EXCEPT ![p] = "comparePause"]
  /\ UNCHANGED <<stats, cbErr, observed, regGC, regPause, snapGoroutines, seenGC, passes,
                 lastGC, lastPause, gcPauseDuration,
                 startupVars, runtimeVars, demoVars>>

\* Line 220: load mc.lastPause and compare.
ComparePause(p) ==
  /\ pc[p] = "comparePause"
  /\ regPause' = [regPause EXCEPT ![p] = lastPause]
  /\ pc' = [pc EXCEPT ![p] = IF LaterGC(stats[p].LastGC, lastPause) THEN "record" ELSE "storeGC"]
  /\ UNCHANGED <<stats, cbErr, observed, regGC, snapGoroutines, seenGC, passes,
                 startupVars, runtimeVars, collectorVars, demoVars>>

\* The histogram after Record(value), line 222.
RecordPerCycle(hist, value, cycles) ==
  IF cycles <= 1 THEN Append(hist, value) ELSE Append(Append(hist, value), value)

Record(hist, value, cycles) == Append(hist, value)

\* Lines 221-222: pauseNs and mc.gcPauseDuration.Record; mc.lastPause as at
\* line 220 or loaded again.
RecordPause(p) ==
  /\ pc[p] = "record"
  /\ \E stored \in {regPause[p], lastPause} :
       gcPauseDuration' = Record(gcPauseDuration, Seconds(pauseNs(stats[p].LastGC, stored)),
                                 stats[p].NumGC - regGC[p])
  /\ pc' = [pc EXCEPT ![p] = "storeGC"]
  /\ UNCHANGED <<stats, cbErr, observed, regGC, regPause, snapGoroutines, seenGC, passes,
                 lastGC, lastPause, counter,
                 startupVars, runtimeVars, demoVars>>

\* Line 224: mc.lastGC = stats.NumGC.
StoreGC(p) ==
  /\ pc[p] = "storeGC"
  /\ lastGC' = stats[p].NumGC
  /\ pc' = [pc EXCEPT ![p] = "storePause"]
  /\ UNCHANGED <<stats, cbErr, observed, regGC, regPause, snapGoroutines, seenGC, passes,
                 lastPause, counter, gcPauseDuration,
                 startupVars, runtimeVars, demoVars>>

\* Line 225: mc.lastPause = stats.LastGC, and the callback returns (line 228).
StorePause(p) ==
  /\ pc[p] = "storePause"
  /\ lastPause' = stats[p].LastGC
  /\ pc' = [pc EXCEPT ![p] = "collect"]
  /\ cbErr' = [cbErr EXCEPT ![p] = CallbackReturns(stats[p])]
  /\ UNCHANGED <<stats, observed, regGC, regPause, snapGoroutines, seenGC, passes,
                 lastGC, counter, gcPauseDuration,
                 startupVars, runtimeVars, demoVars>>

\* The callback has returned: the handler reads the
\* instruments as they are now, answers (line 300) and the request's locals
\* are gone.
Collect(p) ==
  /\ pc[p] = "collect"
  /\ pc' = [pc EXCEPT ![p] = "idle"]
  /\ stats' = [stats EXCEPT ![p] = ZeroStats]
  /\ observed' = [observed EXCEPT ![p] = NoGauges]
  /\ regGC' = [regGC EXCEPT ![p] = 0]
  /\ regPause' = [regPause EXCEPT ![p] = 0]
  /\ cbErr' = [cbErr EXCEPT ![p] = "none"]
  /\ snapGoroutines' = [snapGoroutines EXCEPT ![p] = 0]
  /\ UNCHANGED <<seenGC, passes, startupVars, runtimeVars, collectorVars, demoVars>>

(***************************************************************************)
(* The demo routes, lines 274-297.                                         *)
(***************************************************************************)

\* GET /allocate-memory, lines 274-278: a 1 MB buffer that is garbage at once
\* (the build may also drop the unused allocation).
AllocateMemory ==
  /\ phase = "listening"
  /\ \E grown \in {heapLive, heapLive + 1} :
       /\ grown <= MaxHeapLive
       /\ heapLive' = grown
  /\ UNCHANGED <<now, numGC, lastGCTime, threads, startupVars, collectorVars, scrapeVars, demoVars>>

\* The loop bound of line 282.
SpawnLoopOffByOne == 10 + 1

SpawnLoop == 10

\* GET /spawn-goroutines, lines 280-289: the loop starts its goroutines and
\* the handler answers without waiting for them.
SpawnGoroutines ==
  /\ phase = "listening"
  /\ spawnCalls < MaxSpawnCalls
  /\ spawnCalls' = spawnCalls + 1
  /\ spawnPending' = spawnPending + SpawnLoop
  /\ UNCHANGED <<spawnSleeping, mpc, mstart, mutexCalls, mutexDone, mutexOverlap,
                 startupVars, runtimeVars, collectorVars, scrapeVars>>

\* The counter a spawned goroutine adds to, line 284.
SpawnCounterFieldGC == "gcCount"

SpawnCounterFieldForced == "gcForced"

SpawnCounterField == "totalGoroutines"

\* Line 284 in one spawned goroutine: collector.totalGoroutines.Add(ctx, 1).
GoroutineAdd ==
  /\ spawnPending > 0
  /\ counter' = [counter EXCEPT ![SpawnCounterField] = Add(@, 1)]
  /\ spawnPending' = spawnPending - 1
  /\ spawnSleeping' = spawnSleeping + 1
  /\ UNCHANGED <<spawnCalls, mpc, mstart, mutexCalls, mutexDone, mutexOverlap,
                 lastGC, lastPause, gcPauseDuration,
                 startupVars, runtimeVars, scrapeVars>>

\* Line 285 returns and the goroutine ends.
GoroutineExit ==
  /\ spawnSleeping > 0
  /\ spawnSleeping' = spawnSleeping - 1
  /\ UNCHANGED <<spawnCalls, spawnPending, mpc, mstart, mutexCalls, mutexDone, mutexOverlap,
                 startupVars, runtimeVars, collectorVars, scrapeVars>>

\* GET /simulate-mutex, line 292: start := time.Now().
MutexStart(m) ==
  /\ phase = "listening"
  /\ mpc[m] = "idle"
  /\ mutexCalls < MaxMutexCalls
  /\ mutexCalls' = mutexCalls + 1
  /\ mutexOverlap' = (mutexOverlap \/ \E o \in MutexCallers : mpc[o] # "idle")
  /\ mstart' = [mstart EXCEPT ![m] = now]
  /\ mpc' = [mpc EXCEPT ![m] = "sleep"]
  /\ UNCHANGED <<spawnCalls, spawnPending, spawnSleeping, mutexDone,
                 startupVars, runtimeVars, collectorVars, scrapeVars>>

\* time.Since(start).Nanoseconds(), line 294: the elapsed time as a count of
\* nanoseconds.
SinceNanoseconds(start) == now - start

\* Lines 293-294: time.Sleep returns once at least 100 ms have passed, and the
\* elapsed time is added to mutexWaitTime.
MutexAddWait(m) ==
  /\ mpc[m] = "sleep"
  /\ now - mstart[m] >= MutexSleepNs
  /\ counter' = [counter EXCEPT !.mutexWaitTime = Add(@, SinceNanoseconds(mstart[m]))]
  /\ mpc' = [mpc EXCEPT ![m] = "lock"]
  /\ UNCHANGED <<spawnCalls, spawnPending, spawnSleeping, mstart, mutexCalls, mutexDone, mutexOverlap,
                 lastGC, lastPause, gcPauseDuration,
                 startupVars, runtimeVars, scrapeVars>>

\* Lines 295-296: mutexLockCount.Add(ctx, 1) and the answer.
MutexAddLock(m) ==
  /\ mpc[m] = "lock"
  /\ counter' = [counter EXCEPT !.mutexLockCount = Add(@, 1)]
  /\ mpc' = [mpc EXCEPT ![m] = "idle"]
  /\ mstart' = [mstart EXCEPT ![m] = 0]
  /\ mutexDone' = mutexDone + 1
  /\ UNCHANGED <<spawnCalls, spawnPending, spawnSleeping, mutexCalls, mutexOverlap,
                 lastGC, lastPause, gcPauseDuration,
                 startupVars, runtimeVars, scrapeVars>>

Spawn == SpawnGoroutines \/ GoroutineAdd \/ GoroutineExit

Mutex(m) == MutexStart(m) \/ MutexAddWait(m) \/ MutexAddLock(m)

\* The steps of a sampling pass that can happen while the runtime completes
\* no GC cycle.
PassWithoutGC(p) == ReadStats(p) \/ ObserveRest(p) \/ CompareGC(p) \/ Collect(p)

Startup == NewExporter \/ CreateInstrument \/ RegisterCallback \/ MainCheckCollector \/ Run

Runtime == GCCycle

Pass(p) ==
  \/ ReadStats(p) \/ ObserveRest(p) \/ CompareGC(p) \/ AddGC(p) \/ ComparePause(p)
  \/ RecordPause(p) \/ StoreGC(p) \/ StorePause(p) \/ Collect(p)

NoPassInProgress == \A q \in Scrapers : pc[q] = "idle"

(***************************************************************************)
(* SpecSampler: the sampler under concurrent scrapes, no demo route called.*)
(***************************************************************************)
NextSampler == Startup \/ Runtime \/ \E p \in Scrapers : ScrapeStart(p) \/ Pass(p)

SpecSampler == Init /\ [][NextSampler]_vars

(***************************************************************************)
(* SpecScrapes: scrapes in flight together, GC cycles between them; the    *)
(* Go scheduler runs the goroutine serving a scrape eventually.            *)
(***************************************************************************)
NextScrapes ==
  \/ Startup
  \/ (NoPassInProgress /\ Runtime)
  \/ \E p \in Scrapers : ScrapeStart(p) \/ Pass(p)

SpecScrapes == Init /\ [][NextScrapes]_vars /\ \A p \in Scrapers : WF_vars(Pass(p))

(***************************************************************************)
(* SpecSeq: the same, with scrapes that do not overlap, while the runtime  *)
(* also starts OS threads.                                                 *)
(***************************************************************************)
NextSeq ==
  \/ Startup \/ Runtime \/ ThreadStart
  \/ \E p \in Scrapers : (NoPassInProgress /\ ScrapeStart(p)) \/ Pass(p)

SpecSeq == Init /\ [][NextSeq]_vars


(***************************************************************************)
(* SpecMutex: concurrent calls of /simulate-mutex, interleaved with        *)
(* scrapes (one at a time) while the runtime completes no GC cycle.        *)
(***************************************************************************)
NextMutex ==
  \/ Startup \/ Tick \/ AllocateMemory
  \/ \E m \in MutexCallers : Mutex(m)
  \/ \E p \in Scrapers : (NoPassInProgress /\ ScrapeStart(p)) \/ PassWithoutGC(p)

SpecMutex == Init /\ [][NextMutex]_vars

(***************************************************************************)
(* SpecSpawn: /spawn-goroutines, /allocate-memory and scrapes (one at a    *)
(* time).  The Go scheduler runs every runnable goroutine eventually.      *)
(***************************************************************************)
NextSpawn ==
  \/ Startup \/ Spawn
  \/ \E p \in Scrapers : (NoPassInProgress /\ ScrapeStart(p)) \/ PassWithoutGC(p)

SpecSpawn == Init /\ [][NextSpawn]_vars /\ WF_vars(GoroutineAdd)

(***************************************************************************)
(* SpecFrame: the demo routes, GC cycles and scrapes in one run.  Requests *)
(* are served one after another (a request is taken when no scrape is in   *)
(* progress, every call of /simulate-mutex has returned and every spawned  *)
(* goroutine has run its Add); the runtime completes GC cycles at any      *)
(* moment; the clock is followed while a call of /simulate-mutex sleeps.   *)
(* Spawned goroutines stay in their one-second sleep.                      *)
(***************************************************************************)
NoRequestInProgress ==
  /\ NoPassInProgress
  /\ \A m \in MutexCallers : mpc[m] = "idle"
  /\ spawnPending = 0

NextFrame ==
  \/ Startup \/ Runtime
  \/ ((\E m \in MutexCallers : mpc[m] = "sleep") /\ Tick)
  \/ (NoRequestInProgress /\ AllocateMemory)
  \/ (NoRequestInProgress /\ SpawnGoroutines) \/ GoroutineAdd
  \/ \E m \in MutexCallers :
       (NoRequestInProgress /\ MutexStart(m)) \/ MutexAddWait(m) \/ MutexAddLock(m)
  \/ \E p \in Scrapers : (NoRequestInProgress /\ ScrapeStart(p)) \/ Pass(p)

SpecFrame == Init /\ [][NextFrame]_vars

(***************************************************************************)
(* Spec: the whole program.                                                *)
(***************************************************************************)
Next ==
  \/ Startup \/ Runtime \/ ThreadStart \/ Tick \/ Spawn \/ AllocateMemory
  \/ \E m \in MutexCallers : Mutex(m)
  \/ \E p \in Scrapers : ScrapeStart(p) \/ Pass(p)

Spec == Init /\ [][Next]_vars


(***************************************************************************)
(* Properties.                                                             *)
(***************************************************************************)

\* Positions of a pass after its snapshot, and after all twelve gauges.
AfterReadStats == {"observeRest", "compareGC", "addGC", "comparePause", "record",
                   "storeGC", "storePause", "collect"}

AfterObserve == AfterReadStats \ {"observeRest"}

\* Scraper p takes a step.
Steps(p) == pc'[p] # pc[p]

\* C1 (SpecSeq: passes one after another).  gc_cycles_total never decreases;
\* a step changes it only as the add of a pass whose snapshot shows more
\* cycles than the stored count, and then by exactly snapshot count minus
\* stored count; a pass whose snapshot shows no more cycles than the stored
\* count goes on to the response without adding, and one that shows more
\* goes on to the add.
C1_GcCyclesDelta ==
  [][ /\ counter'.gcCount >= counter.gcCount
      /\ counter'.gcCount # counter.gcCount =>
           \E p \in Scrapers :
             /\ pc[p] = "addGC" /\ Steps(p)
             /\ stats[p].NumGC - lastGC > 0
             /\ counter'.gcCount - counter.gcCount = stats[p].NumGC - lastGC
      /\ \A p \in Scrapers :
           pc[p] = "compareGC" /\ Steps(p) =>
             IF stats[p].NumGC - lastGC > 0
               THEN pc'[p] = "addGC"
               ELSE pc'[p] = "collect" /\ counter' = counter
    ]_vars

\* C1 witness: a pass has just added the cycles completed since an earlier
\* pass (the stored count was not 0), and the counter shows all of them.
C1_Witness ==
  \E p \in Scrapers :
    /\ pc[p] = "comparePause"
    /\ regGC[p] > 0
    /\ counter.gcCount = stats[p].NumGC

\* C2 (SpecSampler: scrapes in flight together).  Once every pass has
\* finished, gc_cycles_total equals the largest cycle count any snapshot
\* showed: no delta was counted twice and none was lost.
C2_NoDeltaLostOrDoubled ==
  NoPassInProgress => counter.gcCount = seenGC

\* C3.  Every value recorded into gc_duration_seconds is non-negative.
C3_NoNegativeDuration ==
  \A i \in DOMAIN gcPauseDuration :
    /\ gcPauseDuration[i].den > 0
    /\ gcPauseDuration[i].num >= 0

\* C3 witness: a pass that counted new cycles found the snapshot's last-GC
\* timestamp no greater than the stored one, and skipped the record.
C3_Witness ==
  \E p \in Scrapers :
    /\ pc[p] = "storeGC"
    /\ stats[p].NumGC > regGC[p]
    /\ regPause[p] > 0
    /\ stats[p].LastGC <= regPause[p]

\* The ten gauges that lines 203-214 take from stats.
MemStatsGauges(st) ==
  [heapAlloc     |-> Int64OfUint64(st.HeapAlloc),
   heapIdle      |-> Int64OfUint64(st.HeapIdle),
   heapInUse     |-> Int64OfUint64(st.HeapInuse),
   heapObjects   |-> Int64OfUint64(st.HeapObjects),
   heapReleased  |-> Int64OfUint64(st.HeapReleased),
   heapSys       |-> Int64OfUint64(st.HeapSys),
   gcCPUFraction |-> st.GCCPUFraction,
   gcSys         |-> Int64OfUint64(st.GCSys),
   stackInUse    |-> Int64OfUint64(st.StackInuse),
   stackSys      |-> Int64OfUint64(st.StackSys)]

\* C4 as claimed.  In every pass every published gauge is the matching field
\* of the one snapshot of that pass: the ten MemStats gauges, and the
\* goroutine count as it was when the snapshot was taken.  (The snapshot's
\* thread count is left out here: see os_threads.)
C4_AllGaugesFromOneSnapshot ==
  \A p \in Scrapers :
    pc[p] \in AfterObserve =>
      /\ \A f \in DOMAIN MemStatsGauges(stats[p]) : observed[p][f] = MemStatsGauges(stats[p])[f]
      /\ observed[p].activeGoroutines = snapGoroutines[p]

\* C4 amended.  In every pass the ten gauges backed by MemStats equal the
\* fields of the one ReadMemStats snapshot of that pass, whatever the runtime
\* has done since, and go_threads is runtime.NumCPU(); go_goroutines comes
\* from a separate runtime.NumGoroutine() call later in the pass (line 209)
\* and counts at least the main goroutine and the request itself.
C4_MemStatsGaugesFromOneSnapshot ==
  \A p \in Scrapers :
    LET fromSnapshot == MemStatsGauges(stats[p]) IN
    /\ pc[p] \in AfterReadStats =>
         \A f \in {"heapAlloc", "heapIdle", "heapInUse", "heapObjects", "heapReleased", "heapSys"} :
           observed[p][f] = fromSnapshot[f]
    /\ pc[p] \in AfterObserve =>
         /\ \A f \in {"gcCPUFraction", "gcSys", "stackInUse", "stackSys"} :
              observed[p][f] = fromSnapshot[f]
         /\ observed[p].osThreads = NumCPU
         /\ observed[p].activeGoroutines >= 2

\* C4 witness: a pass is about to answer; the runtime has moved on since its
\* snapshot, and the goroutine gauge is not the count at the snapshot.
C4_Witness ==
  \E p \in Scrapers :
    /\ pc[p] = "collect"
    /\ stats[p] # ReadMemStats
    /\ observed[p].heapReleased # Int64OfUint64(ReadMemStats.HeapReleased)
    /\ observed[p].activeGoroutines # snapGoroutines[p]

AllMutexIdle == \A m \in MutexCallers : mpc[m] = "idle"

\* C5 (SpecMutex).  Once every call of /simulate-mutex has returned,
\* mutex_lock_total equals the number of calls made, whether or not they
\* overlapped each other or a scrape.
C5_MutexLockTotalExact ==
  AllMutexIdle => counter.mutexLockCount = mutexCalls

\* C5 witness: three calls, some of them in flight together, have returned.
C5_Witness ==
  /\ AllMutexIdle
  /\ mutexOverlap
  /\ mutexCalls = 3
  /\ counter.mutexLockCount = 3

\* C6.  A step changes mc.lastGC or mc.lastPause only as the store of a pass
\* whose snapshot showed a cycle count strictly greater than the stored count
\* it compared with; each pass stores lastGC once, then lastPause once, then
\* answers; a pass whose snapshot showed no new cycle goes from the compare
\* to the answer and both fields are as before.
C6_StateMutatedOnlyOnNewCycle ==
  [][ /\ lastGC' # lastGC =>
           \E p \in Scrapers :
             /\ pc[p] = "storeGC" /\ pc'[p] = "storePause"
             /\ stats[p].NumGC > regGC[p]
             /\ lastPause' = lastPause
      /\ lastPause' # lastPause =>
           \E p \in Scrapers :
             /\ pc[p] = "storePause" /\ pc'[p] = "collect"
             /\ stats[p].NumGC > regGC[p]
             /\ lastGC' = lastGC
      /\ \A p \in Scrapers :
           /\ pc[p] = "compareGC" /\ Steps(p) /\ ~(stats[p].NumGC > lastGC) =>
                pc'[p] = "collect" /\ lastGC' = lastGC /\ lastPause' = lastPause
           /\ pc[p] = "collect" /\ Steps(p) =>
                pc'[p] = "idle" /\ lastGC' = lastGC /\ lastPause' = lastPause
    ]_vars

\* C6 witness: after an earlier pass stored a cycle count, a pass with no new
\* cycle is about to answer and the state is what it compared with.
C6_Witness ==
  \E p \in Scrapers :
    /\ pc[p] = "collect"
    /\ regGC[p] > 0
    /\ stats[p].NumGC <= regGC[p]
    /\ lastGC = regGC[p]

\* C7.  The process gets to serve requests only with all 21 instruments
\* created and the callback registered: a failed creation or registration
\* ends in log.Fatal, and no scrape ever runs against a partial set.
C7_NoPartialInstrumentSet ==
  /\ phase \in {"run", "listening"} =>
       /\ created = AllFields
       /\ callbackRegistered
       /\ ~err
  /\ (passes > 0 \/ \E p \in Scrapers : pc[p] # "idle") =>
       /\ phase = "listening"
       /\ created = AllFields
       /\ callbackRegistered

\* C7 witness: an instrument in the middle of the list was rejected and the
\* process has terminated.
C7_Witness ==
  /\ phase = "fatal"
  /\ err
  /\ created # {}
  /\ created # AllFields
  /\ passes = 0

\* C8 as claimed (no demo route is called in SpecSeq).  When the first
\* scrape after process start reads the instruments, every counter is 0.
C8_FirstScrapeAllCountersZero ==
  \A p \in Scrapers :
    pc[p] = "collect" /\ passes = 1 =>
      \A f \in CounterFields : counter[f] = 0

\* C8 amended.  When the first scrape after process start reads the
\* instruments, with no demo route called, gc_cycles_total is the number of GC
\* cycles the runtime had completed at that pass's snapshot (0 only if
\* none), and every other counter is 0.
C8_FirstScrapeCountsCyclesSinceStart ==
  \A p \in Scrapers :
    pc[p] = "collect" /\ passes = 1 =>
      /\ counter.gcCount = stats[p].NumGC
      /\ \A f \in CounterFields \ {"gcCount"} : counter[f] = 0

\* C8 witness: the first scrape is about to answer and the runtime had
\* completed two GC cycles before its snapshot.
C8_Witness ==
  \E p \in Scrapers :
    /\ pc[p] = "collect"
    /\ passes = 1
    /\ stats[p].NumGC = 2
    /\ counter.gcCount = 2

C10_MutexWaitInSeconds ==
  (AllMutexIdle /\ ~mutexOverlap /\ mutexDone > 0) =>
    /\ counter.mutexWaitTime >= 0
    /\ counter.mutexWaitTime <= mutexDone \div 5


\* C11 as claimed (SpecSeq).  The value a pass publishes for go_threads
\* ("Number of OS threads created") is the number of OS threads the process
\* has at that moment.
C11_OsThreadsIsThreadCount ==
  [][ \A p \in Scrapers :
        pc[p] = "observeRest" /\ Steps(p) => observed'[p].osThreads = threads
    ]_vars


\* Table 4.1 of the specification, row by row; its rows are in the order in
\* which newMetricsCollector creates the instruments.
Table41 ==
  << [name |-> "heap_alloc_bytes",            kind |-> "gauge"],
     [name |-> "heap_idle_bytes",             kind |-> "gauge"],
     [name |-> "heap_inuse_bytes",            kind |-> "gauge"],
     [name |-> "heap_objects",                kind |-> "gauge"],
     [name |-> "heap_released_bytes",         kind |-> "gauge"],
     [name |-> "heap_sys_bytes",              kind |-> "gauge"],
     [name |-> "gc_duration_seconds",         kind |-> "histogram"],
     [name |-> "gc_cycles_total",             kind |-> "counter"],
     [name |-> "gc_forced_total",             kind |-> "counter"],
     [name |-> "goroutines",                  kind |-> "gauge"],
     [name |-> "goroutines_created_total",    kind |-> "counter"],
     [name |-> "gc_cpu_fraction",             kind |-> "gauge"],
     [name |-> "gc_sys_bytes",                kind |-> "gauge"],
     [name |-> "cpu_goroutine_seconds_total", kind |-> "counter"],
     [name |-> "gc_cpu_seconds_total",        kind |-> "counter"],
     [name |-> "sys_seconds_total",           kind |-> "counter"],
     [name |-> "os_threads",                  kind |-> "gauge"],
     [name |-> "stack_inuse_bytes",           kind |-> "gauge"],
     [name |-> "stack_sys_bytes",             kind |-> "gauge"],
     [name |-> "mutex_wait_seconds_total",    kind |-> "counter"],
     [name |-> "mutex_lock_total",            kind |-> "counter"] >>

\* The creation calls and the rows of Table 4.1 agree: the i-th call creates
\* an instrument of the kind of the i-th row, and no two calls pass the same
\* name.
CreationsMatchTable41 ==
  /\ \A i \in 1..NumInstruments : Instruments[i].kind = Table41[i].kind
  /\ \A i, j \in 1..NumInstruments : i # j => InstrumentName(i) # InstrumentName(j)

\* The registry holds n instruments: one per row of Table 4.1, of the row's
\* kind, under n pairwise distinct names, and nothing else.
RegistryIsTable41(n) ==
  /\ created = AllFields
  /\ CreationsMatchTable41
  /\ Cardinality(Registry(created)) = n
  /\ Cardinality({r.name : r \in Registry(created)}) = n

\* What a scrape at the point of answering reads: the gauges the callback
\* observed, every counter and the histogram.
ScrapeLists(p) ==
  {[name |-> InstrumentName(i), kind |-> Instruments[i].kind] :
     i \in {j \in 1..NumInstruments :
              \/ Instruments[j].field \in DOMAIN observed[p]
              \/ Instruments[j].field \in DOMAIN counter
              \/ Instruments[j].field = "gcPauseDuration"}}

C13_RecordsElapsedPause ==
  [][ /\ gcPauseDuration' # gcPauseDuration =>
           \E p \in Scrapers :
             /\ pc[p] = "record" /\ Steps(p)
             /\ stats[p].NumGC > regGC[p]
             /\ stats[p].LastGC > lastPause
             /\ gcPauseDuration' =
                  Append(gcPauseDuration, Seconds(stats[p].LastGC - lastPause))
             /\ stats[p].LastGC - lastPause <= stats[p].LastGC - BootTimeNs
      /\ \A p \in Scrapers :
           pc[p] = "comparePause" /\ Steps(p) /\ ~(stats[p].LastGC > lastPause) =>
             pc'[p] = "storeGC" /\ gcPauseDuration' = gcPauseDuration
    ]_vars


\* C14 (SpecFrame).  mc.lastGC, mc.lastPause, gc_cycles_total and
\* gc_duration_seconds change only in a step of a sampling pass (lines
\* 219-225) of a scrape in progress: a GC cycle of the runtime, a tick of
\* the clock and every step of /allocate-memory, /spawn-goroutines (and its
\* goroutines) and /simulate-mutex leave all of them as they were.
C14_OnlyScrapesChangeGCState ==
  [][ /\ ( \/ lastGC' # lastGC \/ lastPause' # lastPause
           \/ counter'.gcCount # counter.gcCount
           \/ gcPauseDuration' # gcPauseDuration ) =>
             \E p \in Scrapers :
               /\ pc[p] \in {"addGC", "record", "storeGC", "storePause"}
               /\ Steps(p)
      /\ ( \/ numGC' # numGC \/ lastGCTime' # lastGCTime \/ now' # now
           \/ heapLive' # heapLive \/ demoVars' # demoVars
           \/ counter'.totalGoroutines # counter.totalGoroutines
           \/ counter'.mutexWaitTime # counter.mutexWaitTime
           \/ counter'.mutexLockCount # counter.mutexLockCount ) =>
             /\ lastGC' = lastGC /\ lastPause' = lastPause
             /\ counter'.gcCount = counter.gcCount
             /\ gcPauseDuration' = gcPauseDuration
    ]_vars

\* C14 witness: after a pass stored one cycle and recorded once, the runtime
\* completed another cycle, a buffer was allocated, and calls of
\* /spawn-goroutines and /simulate-mutex have run; the stored state and both
\* instruments still show the pass.
C14_Witness ==
  /\ NoPassInProgress
  /\ lastGC = 1 /\ numGC = 2 /\ lastPause > 0
  /\ counter.gcCount = 1
  /\ Len(gcPauseDuration) = 1
  /\ heapLive = 1
  /\ counter.totalGoroutines > 0
  /\ counter.mutexLockCount > 0


\* C15 (SpecScrapes: scrapes in flight together, each scheduled
\* eventually).  Whatever the snapshot and the stored state, the callback
\* returns nil; a pass in progress always has a next step it can take (it
\* waits for nothing: no lock, no channel, no other request); and every pass
\* that started gets to its answer.
C15_ScrapeAlwaysSucceeds ==
  /\ [](\A p \in Scrapers :
          /\ pc[p] = "collect" => cbErr[p] = "nil"
          /\ pc[p] # "collect" => cbErr[p] = "none"
          /\ pc[p] # "idle" => ENABLED Pass(p))
  /\ \A p \in Scrapers : []<>(pc[p] = "idle")

\* C15 witness: a pass whose snapshot showed new cycles, taken while another
\* pass is in progress, has returned nil and is about to answer.
C15_Witness ==
  \E p, q \in Scrapers :
    /\ p # q
    /\ pc[p] = "collect" /\ cbErr[p] = "nil"
    /\ stats[p].NumGC > 0
    /\ pc[q] \notin {"idle", "collect"}


\* C16 (SpecSeq: passes one after another; the runtime's cycle count only
\* grows).  The snapshot a pass takes shows the largest cycle count seen so
\* far, so that count is the one of the most recent snapshot; and whenever no
\* pass is in progress, gc_cycles_total equals mc.lastGC, which equals the
\* cycle count of the most recent snapshot (0 before the first pass).
C16_TotalEqualsStoredEqualsLatest ==
  /\ [][ \A p \in Scrapers :
           pc[p] = "readStats" /\ Steps(p) =>
             /\ stats'[p].NumGC >= seenGC
             /\ seenGC' = stats'[p].NumGC ]_vars
  /\ [](NoPassInProgress =>
          /\ counter.gcCount = lastGC
          /\ lastGC = seenGC)

\* C16 witness: two passes have run, each after one more GC cycle and each
\* recording once; total, stored count and latest snapshot count are all 2.
C16_Witness ==
  /\ NoPassInProgress
  /\ passes = 2
  /\ Len(gcPauseDuration) = 2
  /\ seenGC = 2
  /\ lastGC = 2
  /\ counter.gcCount = 2


\* C17 (SpecScrapes).  A step adds at most one observation to
\* gc_duration_seconds, and only as the record of a pass (line 222), which a
\* pass reaches at most once; so the number of observations never exceeds
\* the number of passes, however many GC cycles the passes counted.
C17_AtMostOneObservationPerPass ==
  /\ [][ Len(gcPauseDuration') # Len(gcPauseDuration) =>
           /\ Len(gcPauseDuration') = Len(gcPauseDuration) + 1
           /\ \E p \in Scrapers : pc[p] = "record" /\ pc'[p] = "storeGC" ]_vars
  /\ [](Len(gcPauseDuration) <= passes)

\* C17 witness: one pass counted two GC cycles and recorded once: fewer
\* observations than gc_cycles_total.
C17_Witness ==
  /\ NoPassInProgress
  /\ passes = 1
  /\ counter.gcCount = 2
  /\ Len(gcPauseDuration) = 1


\* C18 as claimed (SpecSampler: scrapes in flight together).  Whenever no
\* pass is in progress, (mc.lastGC, mc.lastPause) is the (NumGC, LastGC) pair
\* of one snapshot.  The runtime has one last-GC timestamp per cycle count,
\* so when the stored count is the runtime's current count, every snapshot
\* showing that count shows the runtime's current last-GC timestamp, and the
\* stored timestamp must be that one.
C18_StoredPairFromOneSnapshot ==
  (NoPassInProgress /\ lastGC > 0 /\ lastGC = numGC) => lastPause = lastGCTime


\* The counters that are created (lines 113, 145, 151, 157) and that no line
\* of the program adds to.
NeverAddedCounters == {"gcForced", "goroutineExecTime", "gcTime", "systemTime"}

=============================================================================
